---------------------------- MODULE Spec2Model ----------------------------
(***************************************************************************)
(* The decision / evidence / alert core of the VIP Guardian backend:       *)
(* TelegramAlertSystem, SimpleEvidenceVault and SimpleCrisisEngine of      *)
(* backend/app/alert_system.py, the /analyze/threat endpoint and the two   *)
(* lookup endpoints of backend/main.py, and FakeAccountDetector of         *)
(* backend/app/fake_account_detector.py.                                   *)
(*                                                                         *)
(* Specifications.                                                         *)
(*   - Spec: interleaved process_threat invocations, step by step.         *)
(*   - SpecApi: one invocation and the two lookup endpoints.               *)
(*   - SpecAnalyze: one /analyze/threat request, scorers included.         *)
(*   - SpecClassify: classify_threat over a wide range of scores.          *)
(*   - SpecDetector: one call of a FakeAccountDetector method.             *)
(*                                                                         *)
(* Conventions.                                                            *)
(*   - A Python str is a sequence of one-character strings.                *)
(*   - A Python float score is an integer number of thousandths            *)
(*     (9.5 is 9500), so that drift_score / 10 is exact for the two        *)
(*     decimals check_stylometric_drift rounds to.                         *)
(*   - A Python dict is a function; d.get(k, default) is DictGet.          *)
(*   - A similarity (a float in [0, 1]) is a fraction of two naturals.     *)
(*   - hashlib.sha256 is the ideal (collision-free) hash: a digest is a    *)
(*     value determined by, and determining, the hashed string.            *)
(***************************************************************************)
EXTENDS Integers, Sequences, FiniteSets, TLC

\* ------------------------------------------------------------------ bounds
\* Number of process_threat invocations the model follows.
NumCalls == 2
\* Number of distinct readings datetime.now() can give.
MaxClock == 2

Calls == 1..NumCalls
Clock == 1..MaxClock

\* Python's None (also what `x or {}` and `if x` treat like the empty dict and
\* the empty string).
None == <<>>

\* ----------------------------------------------------------------- strings
UpperCase == <<"A","B","C","D","E","F","G","H","I","J","K","L","M",
               "N","O","P","Q","R","S","T","U","V","W","X","Y","Z">>
LowerCase == <<"a","b","c","d","e","f","g","h","i","j","k","l","m",
               "n","o","p","q","r","s","t","u","v","w","x","y","z">>

\* str.lower() on one character.
LowerChar(ch) ==
    IF \E i \in 1..Len(UpperCase) : UpperCase[i] = ch
    THEN LowerCase[CHOOSE i \in 1..Len(UpperCase) : UpperCase[i] = ch]
    ELSE ch

\* str.lower()
Lower(s) == [i \in 1..Len(s) |-> LowerChar(s[i])]

\* Python's `word in text` on strings: word is a contiguous substring of text.
Contains(text, word) ==
    \E i \in 0..(Len(text) - Len(word)) :
        \A j \in 1..Len(word) : text[i + j] = word[j]

\* dict.get(key, default)
DictGet(d, key, default) == IF key \in DOMAIN d THEN d[key] ELSE default

\* dict[key] = value
DictPut(d, key, value) ==
    [k \in (DOMAIN d) \cup {key} |-> IF k = key THEN value ELSE d[k]]

EmptyDict == [k \in {} |-> None]

Max2(a, b) == IF a >= b THEN a ELSE b
Min2(a, b) == IF a <= b THEN a ELSE b

\* ------------------------------------------------------------------ inputs
\* Request texts: one without keyword, one with a high keyword ("scam"), one
\* with a critical keyword ("bomb"); upper case letters exercise lower().
ContentPlain == <<"O","k">>
ContentScam == <<"S","c","a","m">>
ContentBomb == <<"B","o","m","b">>

\* The texts the process_threat invocations are made with.
Contents == {ContentPlain, ContentBomb}

\* analysis_result as main.py builds it (combined_analysis): dissonance 2.0,
\* drift 10.0.
AnalysisResults == { [dissonance_score |-> 2000, drift_score |-> 10000] }

SourceUrl == <<"u">>
Urls == {None, SourceUrl}

\* A report of generate_fake_account_report: total risk 8.0.
FakeReport == [fake_account_risk_score |-> 8000, risk_score |-> 3000]
FakeAccountAnalyses == {None, FakeReport}

\* With these, the four levels occur: plain text alone is low (2.0), with the
\* report high (8.0); the critical keyword alone gives medium (5.0), with the
\* report critical (10.0).
Requests ==
    [content : Contents, analysis_result : AnalysisResults,
     url : Urls, fake_account_analysis : FakeAccountAnalyses]

\* ------------------------------------------------------ TelegramAlertSystem
critical_keywords ==
    { <<"d","e","a","t","h">>, <<"k","i","l","l">>, <<"b","o","m","b">>,
      <<"a","t","t","a","c","k">>, <<"d","o","x","x">>, <<"l","e","a","k">>,
      <<"h","a","c","k">>, <<"t","h","r","e","a","t">> }
high_keywords ==
    { <<"f","a","k","e">>, <<"f","r","a","u","d">>, <<"s","c","a","m">>,
      <<"i","m","p","o","s","t","e","r">>, <<"l","i","e">>,
      <<"f","a","l","s","e">> }

ScoreCap == 10000
CriticalBoost == 3000
HighBoost == 1500
CriticalThreshold == 9000
HighThreshold == 7000
MediumThreshold == 5000

\* Mutant: the lower edge of each band excluded.
classify_threat_exclusive_edges(dissonance_score, drift_score, content, fake_account_score) ==
    LET base == Max2(Max2(dissonance_score, drift_score \div 10),
                     fake_account_score)
        content_lower == Lower(content)
        base_score ==
            IF \E word \in critical_keywords : Contains(content_lower, word)
            THEN Min2(ScoreCap, base + CriticalBoost)
            ELSE IF \E word \in high_keywords : Contains(content_lower, word)
            THEN Min2(ScoreCap, base + HighBoost)
            ELSE base
    IN  IF base_score > CriticalThreshold
        THEN [level |-> "critical", score |-> base_score]
        ELSE IF base_score > HighThreshold
        THEN [level |-> "high", score |-> base_score]
        ELSE IF base_score > MediumThreshold
        THEN [level |-> "medium", score |-> base_score]
        ELSE [level |-> "low", score |-> base_score]

\* Mutant: the high boost added on top of the critical boost.
classify_threat_both_boosts(dissonance_score, drift_score, content, fake_account_score) ==
    LET base == Max2(Max2(dissonance_score, drift_score \div 10),
                     fake_account_score)
        content_lower == Lower(content)
        base_score ==
            IF \E word \in critical_keywords : Contains(content_lower, word)
            THEN IF \E word \in high_keywords : Contains(content_lower, word)
                 THEN Min2(ScoreCap, base + CriticalBoost + HighBoost)
                 ELSE Min2(ScoreCap, base + CriticalBoost)
            ELSE IF \E word \in high_keywords : Contains(content_lower, word)
            THEN Min2(ScoreCap, base + HighBoost)
            ELSE base
    IN  IF base_score >= CriticalThreshold
        THEN [level |-> "critical", score |-> base_score]
        ELSE IF base_score >= HighThreshold
        THEN [level |-> "high", score |-> base_score]
        ELSE IF base_score >= MediumThreshold
        THEN [level |-> "medium", score |-> base_score]
        ELSE [level |-> "low", score |-> base_score]

\* Mutant: the base score as the sum of the three scores.
classify_threat_sum(dissonance_score, drift_score, content, fake_account_score) ==
    LET base == dissonance_score + drift_score \div 10 + fake_account_score
        content_lower == Lower(content)
        base_score ==
            IF \E word \in critical_keywords : Contains(content_lower, word)
            THEN Min2(ScoreCap, base + CriticalBoost)
            ELSE IF \E word \in high_keywords : Contains(content_lower, word)
            THEN Min2(ScoreCap, base + HighBoost)
            ELSE base
    IN  IF base_score >= CriticalThreshold
        THEN [level |-> "critical", score |-> base_score]
        ELSE IF base_score >= HighThreshold
        THEN [level |-> "high", score |-> base_score]
        ELSE IF base_score >= MediumThreshold
        THEN [level |-> "medium", score |-> base_score]
        ELSE [level |-> "low", score |-> base_score]

\* Mutant: the drift score taken as it is, not divided by 10.
classify_threat_raw_drift(dissonance_score, drift_score, content, fake_account_score) ==
    LET base == Max2(Max2(dissonance_score, drift_score), fake_account_score)
        content_lower == Lower(content)
        base_score ==
            IF \E word \in critical_keywords : Contains(content_lower, word)
            THEN Min2(ScoreCap, base + CriticalBoost)
            ELSE IF \E word \in high_keywords : Contains(content_lower, word)
            THEN Min2(ScoreCap, base + HighBoost)
            ELSE base
    IN  IF base_score >= CriticalThreshold
        THEN [level |-> "critical", score |-> base_score]
        ELSE IF base_score >= HighThreshold
        THEN [level |-> "high", score |-> base_score]
        ELSE IF base_score >= MediumThreshold
        THEN [level |-> "medium", score |-> base_score]
        ELSE [level |-> "low", score |-> base_score]

\* Lines 26-52.
classify_threat(dissonance_score, drift_score, content, fake_account_score) ==
    LET base == Max2(Max2(dissonance_score, drift_score \div 10),
                     fake_account_score)
        content_lower == Lower(content)
        base_score ==
            IF \E word \in critical_keywords : Contains(content_lower, word)
            THEN Min2(ScoreCap, base + CriticalBoost)
            ELSE IF \E word \in high_keywords : Contains(content_lower, word)
            THEN Min2(ScoreCap, base + HighBoost)
            ELSE base
    IN  IF base_score >= CriticalThreshold
        THEN [level |-> "critical", score |-> base_score]
        ELSE IF base_score >= HighThreshold
        THEN [level |-> "high", score |-> base_score]
        ELSE IF base_score >= MediumThreshold
        THEN [level |-> "medium", score |-> base_score]
        ELSE [level |-> "low", score |-> base_score]

\* send_telegram_alert: `sent` is whether rendering, requests.post and
\* raise_for_status all went through; any exception gives "failed".
send_telegram_alert(enabled, threat_data, sent) ==
    IF ~enabled
    THEN [status |-> "skipped", reason |-> "telegram_disabled"]
    ELSE IF sent
    THEN [status |-> "sent", channel |-> "telegram"]
    ELSE [status |-> "failed", channel |-> "telegram"]

\* send_console_alert: `printed` is whether rendering and print() went
\* through; any exception gives "failed".
send_console_alert(threat_data, printed) ==
    IF printed
    THEN [status |-> "sent", channel |-> "console"]
    ELSE [status |-> "failed", channel |-> "console"]

\* ------------------------------------------------------ SimpleEvidenceVault
Digits == <<"0","1","2","3","4","5","6","7","8","9">>

\* datetime.isoformat() of clock reading t.
isoformat(t) == <<"T", Digits[(t % 10) + 1]>>

\* hashlib.sha256(s.encode()).hexdigest()
Sha256Hex(s) == [sha256 |-> s]

\* hexdigest()[:16]
Prefix16(digest) == [sha256_16 |-> digest.sha256]

Salt == <<"v","i","p","_","g","u","a","r","d","i","a","n">>

\* Mutant: the ID hashed from the content alone.
evidence_id_of_content_only(content, timestamp) == Prefix16(Sha256Hex(content))

evidence_id_of(content, timestamp) == Prefix16(Sha256Hex(content \o timestamp))
integrity_hash_of(content) == Sha256Hex(content)
blockchain_hash_of(content, timestamp) == Sha256Hex(content \o timestamp \o Salt)

\* The `evidence` dict capture_evidence builds and dumps.
build_evidence(content, metadata, timestamp) ==
    [id |-> evidence_id_of(content, timestamp),
     timestamp |-> timestamp,
     content |-> content,
     metadata |-> metadata,
     integrity_hash |-> integrity_hash_of(content),
     blockchain_simulation |-> blockchain_hash_of(content, timestamp)]

\* Mutant: the handle carries an ID cut from the integrity hash.
evidence_handle_wrong_id(evidence) ==
    [evidence_id |-> Prefix16(evidence.integrity_hash),
     blockchain_hash |-> evidence.blockchain_simulation,
     capture_time |-> evidence.timestamp,
     integrity_hash |-> evidence.integrity_hash]

\* What capture_evidence returns.
evidence_handle(evidence) ==
    [evidence_id |-> evidence.id,
     blockchain_hash |-> evidence.blockchain_simulation,
     capture_time |-> evidence.timestamp,
     integrity_hash |-> evidence.integrity_hash]

\* A file that open(..., 'w') created or truncated and json.dump did not
\* finish writing.
PartialFile == [partial |-> TRUE]

\* ------------------------------------------------- archive_url_on_wayback
ArchivedLocation == <<"w","e","b","/","u">>

\* Mutant: a failed request still yields the archive's base URL.
archive_url_on_wayback_base_on_failure(url_to_archive, ok) ==
    IF url_to_archive = None
    THEN None
    ELSE IF ok THEN ArchivedLocation ELSE <<"w","e","b">>

archive_url_on_wayback(url_to_archive, ok) ==
    IF url_to_archive = None
    THEN None
    ELSE IF ok THEN ArchivedLocation ELSE None

\* ------------------------------------------------------------------- state
VARIABLES
    telegram_enabled,  \* TelegramAlertSystem.telegram_enabled
    evidence_files,    \* evidence_vault/<id>.json: id -> file content
    active_alerts,     \* SimpleCrisisEngine.active_alerts: id -> entry
    call,              \* per process_threat invocation: position and locals
    http,              \* the last answer of a lookup endpoint
    telegram_token,    \* TelegramAlertSystem.telegram_token
    telegram_chat_id,  \* TelegramAlertSystem.telegram_chat_id
    analyze_threat,    \* the POST /analyze/threat request being served
    detector           \* the last FakeAccountDetector call: name, input, result

vars == <<telegram_enabled, evidence_files, active_alerts, call, http,
          telegram_token, telegram_chat_id, analyze_threat, detector>>

\* The credentials read from the environment at construction.
credentials == <<telegram_token, telegram_chat_id>>

\* A process_threat invocation before it is made.  `steps` records, in order,
\* the steps the invocation has run and the external requests it has issued.
IdleCall ==
    [pc |-> "idle", request |-> None, classification |-> None,
     archived_url |-> None, evidence |-> None, evidence_data |-> None,
     threat_data |-> None, alert_results |-> <<>>, response |-> None,
     error |-> None, steps |-> <<>>]

\* os.getenv: None when the variable is unset, else its value.
EnvValues == {None, <<"s","e","t">>}

\* Mutant: Telegram enabled as soon as the bot token is set.
telegram_enabled_of_token_only(token, chat_id) == ~(token = None)

\* TelegramAlertSystem.__init__: `not token or not chat_id` disables Telegram
\* (None and the empty string are both falsy).
telegram_enabled_of(token, chat_id) == ~(token = None \/ chat_id = None)

Init ==
    /\ telegram_token \in EnvValues
    /\ telegram_chat_id \in EnvValues
    /\ telegram_enabled = telegram_enabled_of(telegram_token, telegram_chat_id)
    /\ evidence_files = EmptyDict
    /\ active_alerts = EmptyDict
    /\ call = [c \in Calls |-> IdleCall]
    /\ http = None
    /\ analyze_threat = None
    /\ detector = None

Step(c, name) == Append(call[c].steps, name)

\* ------------------------------------------- SimpleCrisisEngine.process_threat
\* The endpoint calls process_threat with the request's fields.  Invocations
\* are numbered in the order they are made.
Start(c) ==
    /\ call[c].pc = "idle"
    /\ IF c = 1 THEN TRUE ELSE call[c - 1].pc # "idle"
    /\ \E r \in Requests :
         call' = [call EXCEPT ![c].pc = "classify", ![c].request = r]
    /\ UNCHANGED <<credentials, analyze_threat, detector>>
    /\ UNCHANGED <<telegram_enabled, evidence_files, active_alerts, http>>

\* Mutant: the account risk read under the newer field name only.
fake_score_of_newer_name_only(fake_account_analysis) ==
    LET fake_report == IF fake_account_analysis = None
                       THEN EmptyDict ELSE fake_account_analysis
    IN  DictGet(fake_report, "fake_account_risk_score", 0)

\* Lines 211-224: scores out of analysis_result and the account context,
\* then classify_threat.
fake_score_of(fake_account_analysis) ==
    LET fake_report == IF fake_account_analysis = None
                       THEN EmptyDict ELSE fake_account_analysis
    IN  DictGet(fake_report, "fake_account_risk_score",
                DictGet(fake_report, "risk_score", 0))

\* Mutant: the archival step skipped after the classification.
ClassifySkippingArchive(c) ==
    /\ call[c].pc = "classify"
    /\ LET r == call[c].request
           dissonance_score == DictGet(r.analysis_result, "dissonance_score", 0)
           drift_score == DictGet(r.analysis_result, "drift_score", 0)
           fake_score == fake_score_of(r.fake_account_analysis)
       IN  call' = [call EXCEPT
                      ![c].pc = "capture",
                      ![c].classification =
                          classify_threat(dissonance_score, drift_score,
                                          r.content, fake_score),
                      ![c].steps = Step(c, "classify")]
    /\ UNCHANGED <<credentials, analyze_threat, detector>>
    /\ UNCHANGED <<telegram_enabled, evidence_files, active_alerts, http>>

Classify(c) ==
    /\ call[c].pc = "classify"
    /\ LET r == call[c].request
           dissonance_score == DictGet(r.analysis_result, "dissonance_score", 0)
           drift_score == DictGet(r.analysis_result, "drift_score", 0)
           fake_score == fake_score_of(r.fake_account_analysis)
       IN  call' = [call EXCEPT
                      ![c].pc = "archive",
                      ![c].classification =
                          classify_threat(dissonance_score, drift_score,
                                          r.content, fake_score),
                      ![c].steps = Step(c, "classify")]
    /\ UNCHANGED <<credentials, analyze_threat, detector>>
    /\ UNCHANGED <<telegram_enabled, evidence_files, active_alerts, http>>

\* Mutant: a failed archival request is tried a second time.
ArchiveRetrying(c) ==
    /\ call[c].pc = "archive"
    /\ LET url == call[c].request.url
       IN  IF url # None
           THEN \E ok \in BOOLEAN :
                  call' = [call EXCEPT
                             ![c].pc =
                                 IF ok \/ (\E n \in 1..Len(call[c].steps) :
                                              call[c].steps[n] = "archive_failed")
                                 THEN "capture" ELSE "archive",
                             ![c].archived_url = archive_url_on_wayback(url, ok),
                             ![c].steps = Step(c, IF ok THEN "archive_ok"
                                                        ELSE "archive_failed")]
           ELSE call' = [call EXCEPT ![c].pc = "capture",
                                     ![c].archived_url = None]
    /\ UNCHANGED <<credentials, analyze_threat, detector>>
    /\ UNCHANGED <<telegram_enabled, evidence_files, active_alerts, http>>

\* Line 227: one best-effort archival request when a URL is given.
Archive(c) ==
    /\ call[c].pc = "archive"
    /\ LET url == call[c].request.url
       IN  IF url # None
           THEN \E ok \in BOOLEAN :
                  call' = [call EXCEPT
                             ![c].pc = "capture",
                             ![c].archived_url = archive_url_on_wayback(url, ok),
                             ![c].steps = Step(c, IF ok THEN "archive_ok"
                                                        ELSE "archive_failed")]
           ELSE call' = [call EXCEPT ![c].pc = "capture",
                                     ![c].archived_url = None]
    /\ UNCHANGED <<credentials, analyze_threat, detector>>
    /\ UNCHANGED <<telegram_enabled, evidence_files, active_alerts, http>>

\* The metadata dict of lines 232-240 (vip_handle and platform are passed
\* through unread and are left out).
metadata_of(r, archived_url, classification) ==
    [original_url |-> r.url,
     archived_url |-> archived_url,
     analysis_result |-> r.analysis_result,
     classification |-> classification,
     fake_account_analysis |-> r.fake_account_analysis]

\* The threat_data dict of lines 244-255.
threat_data_of(r, classification, evidence_data) ==
    [content |-> r.content,
     url |-> r.url,
     classification |-> classification,
     evidence_id |-> evidence_data.evidence_id,
     blockchain_hash |-> evidence_data.blockchain_hash,
     fake_account_analysis |-> r.fake_account_analysis]

\* open(path, 'w') followed by json.dump: the file at `id` after the write.
write_file(files, id, evidence) == DictPut(files, id, evidence)

\* Lines 230-255, capture_evidence succeeding: the record is written under
\* its ID and threat_data is prepared.
CaptureOk(c) ==
    /\ call[c].pc = "capture"
    /\ \E t \in Clock :
         LET r == call[c].request
             evidence == build_evidence(r.content,
                             metadata_of(r, call[c].archived_url,
                                         call[c].classification),
                             isoformat(t))
             evidence_data == evidence_handle(evidence)
         IN  /\ evidence_files' = write_file(evidence_files, evidence.id, evidence)
             /\ call' = [call EXCEPT
                           ![c].pc = "console",
                           ![c].evidence = evidence,
                           ![c].evidence_data = evidence_data,
                           ![c].threat_data =
                               threat_data_of(r, call[c].classification,
                                              evidence_data),
                           ![c].steps = Step(c, "capture")]
    /\ UNCHANGED <<credentials, analyze_threat, detector>>
    /\ UNCHANGED <<telegram_enabled, active_alerts, http>>

\* Lines 187-188 raising OSError: either open() fails and nothing is written,
\* or the write stops after open() created or truncated the file.  The
\* handler of line 289 re-raises "Threat processing failed".
CaptureFails(c) ==
    /\ call[c].pc = "capture"
    /\ \E t \in Clock, opened \in BOOLEAN :
         LET r == call[c].request
             id == evidence_id_of(r.content, isoformat(t))
         IN  /\ evidence_files' = IF opened
                                  THEN DictPut(evidence_files, id, PartialFile)
                                  ELSE evidence_files
             /\ call' = [call EXCEPT
                           ![c].pc = "failed",
                           ![c].error = "Threat processing failed",
                           ![c].steps = Step(c, IF opened THEN "capture_partial"
                                                          ELSE "capture_failed")]
    /\ UNCHANGED <<credentials, analyze_threat, detector>>
    /\ UNCHANGED <<telegram_enabled, active_alerts, http>>

\* Mutant: the console alert gated by level like the Telegram alert.
ConsoleAlertGated(c) ==
    /\ call[c].pc = "console"
    /\ IF call[c].classification.level = "low"
       THEN call' = [call EXCEPT ![c].pc = "telegram"]
       ELSE \E printed \in BOOLEAN :
              call' = [call EXCEPT
                         ![c].pc = "telegram",
                         ![c].alert_results =
                             Append(@, send_console_alert(call[c].threat_data,
                                                          printed)),
                         ![c].steps = Step(c, "console")]
    /\ UNCHANGED <<credentials, analyze_threat, detector>>
    /\ UNCHANGED <<telegram_enabled, evidence_files, active_alerts, http>>

\* Lines 258-262: the console alert, always.
ConsoleAlert(c) ==
    /\ call[c].pc = "console"
    /\ \E printed \in BOOLEAN :
         call' = [call EXCEPT
                    ![c].pc = "telegram",
                    ![c].alert_results =
                        Append(@, send_console_alert(call[c].threat_data, printed)),
                    ![c].steps = Step(c, "console")]
    /\ UNCHANGED <<credentials, analyze_threat, detector>>
    /\ UNCHANGED <<telegram_enabled, evidence_files, active_alerts, http>>

\* Mutant: medium left out of the gate.
telegram_levels_without_medium == {"high", "critical"}

\* Line 265: the levels a Telegram alert is sent for.
telegram_levels == {"medium", "high", "critical"}

\* Lines 265-267: the Telegram alert, for the gated levels.  Without
\* credentials send_telegram_alert returns before any request is made.
TelegramAlert(c) ==
    /\ call[c].pc = "telegram"
    /\ IF call[c].classification.level \in telegram_levels
       THEN \E sent \in (IF telegram_enabled THEN BOOLEAN ELSE {FALSE}) :
              call' = [call EXCEPT
                     ![c].pc = "register",
                     ![c].alert_results =
                         Append(@, send_telegram_alert(telegram_enabled,
                                                       call[c].threat_data, sent)),
                     ![c].steps =
                         Step(c, IF ~telegram_enabled THEN "telegram_skipped"
                                 ELSE IF sent THEN "telegram_post_ok"
                                 ELSE "telegram_post_failed")]
       ELSE call' = [call EXCEPT ![c].pc = "register"]
    /\ UNCHANGED <<credentials, analyze_threat, detector>>
    /\ UNCHANGED <<telegram_enabled, evidence_files, active_alerts, http>>

\* The entry of lines 271-275.
alert_entry(threat_data, alert_results) ==
    [threat_data |-> threat_data, alert_results |-> alert_results]

\* Mutant: the registry rebuilt with the new entry alone.
store_alert_forgetting_others(alerts, alert_id, entry) ==
    DictPut(EmptyDict, alert_id, entry)

\* self.active_alerts[alert_id] = entry
store_alert(alerts, alert_id, entry) == DictPut(alerts, alert_id, entry)

\* Lines 270-275: the active alert is stored under the evidence ID.
Register(c) ==
    /\ call[c].pc = "register"
    /\ LET alert_id == call[c].evidence_data.evidence_id
       IN  active_alerts' =
               store_alert(active_alerts, alert_id,
                           alert_entry(call[c].threat_data, call[c].alert_results))
    /\ call' = [call EXCEPT ![c].pc = "return", ![c].steps = Step(c, "register")]
    /\ UNCHANGED <<credentials, analyze_threat, detector>>
    /\ UNCHANGED <<telegram_enabled, evidence_files, http>>

\* Mutant: any Telegram result counts as sent, whatever its status.
telegram_sent_of_any_status(alert_results) ==
    \E i \in 1..Len(alert_results) :
        /\ "channel" \in DOMAIN alert_results[i]
        /\ alert_results[i].channel = "telegram"

\* Mutant: any result with status sent counts, the console's included.
telegram_sent_of_any_channel(alert_results) ==
    \E i \in 1..Len(alert_results) : alert_results[i].status = "sent"

\* Line 284: any(r.get("channel") == "telegram" and r["status"] == "sent" ...)
telegram_sent_of(alert_results) ==
    \E i \in 1..Len(alert_results) :
        /\ "channel" \in DOMAIN alert_results[i]
        /\ alert_results[i].channel = "telegram"
        /\ alert_results[i].status = "sent"

\* The response dict of lines 278-287.
response_of(alert_id, classification, evidence_data, alert_results) ==
    [alert_id |-> alert_id,
     threat_level |-> classification.level,
     threat_score |-> classification.score,
     evidence_captured |-> TRUE,
     evidence_id |-> evidence_data.evidence_id,
     telegram_sent |-> telegram_sent_of(alert_results),
     blockchain_hash |-> evidence_data.blockchain_hash]

\* Lines 278-287: the response goes back to the caller.
Return(c) ==
    /\ call[c].pc = "return"
    /\ call' = [call EXCEPT
                  ![c].pc = "done",
                  ![c].response =
                      response_of(call[c].evidence_data.evidence_id,
                                  call[c].classification, call[c].evidence_data,
                                  call[c].alert_results),
                  ![c].steps = Step(c, "return")]
    /\ UNCHANGED <<credentials, analyze_threat, detector>>
    /\ UNCHANGED <<telegram_enabled, evidence_files, active_alerts, http>>

ProcessThreat(c) ==
    \/ Start(c)
    \/ Classify(c)
    \/ Archive(c)
    \/ CaptureOk(c)
    \/ CaptureFails(c)
    \/ ConsoleAlert(c)
    \/ TelegramAlert(c)
    \/ Register(c)
    \/ Return(c)

Next == \E c \in Calls : ProcessThreat(c)

Spec == Init /\ [][Next]_vars

\* ------------------------------------------------- lookup endpoints (main.py)
\* An evidence ID no capture of the model produces.
UnknownId == Prefix16(Sha256Hex(<<"?">>))

\* The IDs a client may ask for.
LookupIds ==
    {evidence_id_of(content, isoformat(t)) : content \in Contents, t \in Clock}
        \cup {UnknownId}

\* The methods class SimpleCrisisEngine defines (alert_system.py 197-291).
engine_methods == {"__init__", "process_threat"}

\* GET /alerts/{alert_id}: line 185 calls crisis_engine.get_alert_status,
\* which the class does not define; the AttributeError is no HTTPException
\* and the server answers 500.
get_alert_details(alerts, alert_id) ==
    IF "get_alert_status" \notin engine_methods
    THEN [endpoint |-> "alerts", id |-> alert_id, status_code |-> 500,
          detail |-> "AttributeError", body |-> None]
    ELSE IF alert_id \in DOMAIN alerts
    THEN [endpoint |-> "alerts", id |-> alert_id, status_code |-> 200,
          detail |-> "", body |-> alerts[alert_id]]
    ELSE [endpoint |-> "alerts", id |-> alert_id, status_code |-> 404,
          detail |-> "Alert not found", body |-> None]

GetAlertDetails(alert_id) ==
    /\ http' = get_alert_details(active_alerts, alert_id)
    /\ UNCHANGED <<credentials, analyze_threat, detector>>
    /\ UNCHANGED <<telegram_enabled, evidence_files, active_alerts, call>>

\* GET /evidence/{evidence_id}, lines 192-199: what the try block raises or
\* returns.
evidence_try_block(files, evidence_id) ==
    IF evidence_id \notin DOMAIN files
    THEN [raised |-> "HTTPException", status_code |-> 404,
          detail |-> "Evidence not found", body |-> None]
    ELSE IF files[evidence_id] = PartialFile
    THEN [raised |-> "JSONDecodeError", status_code |-> 0,
          detail |-> "JSONDecodeError", body |-> None]
    ELSE [raised |-> "", status_code |-> 200, detail |-> "",
          body |-> files[evidence_id]]

\* The exception classes `except Exception` of line 200 catches: HTTPException
\* derives from Exception.
caught_by_except_Exception == {"HTTPException", "JSONDecodeError"}

\* Lines 192-201: the try block under `except Exception`, which turns every
\* exception it catches into a 500.
get_evidence_details(files, evidence_id) ==
    LET r == evidence_try_block(files, evidence_id)
    IN  IF r.raised \in caught_by_except_Exception
        THEN [endpoint |-> "evidence", id |-> evidence_id, status_code |-> 500,
              detail |-> r.detail, body |-> None]
        ELSE [endpoint |-> "evidence", id |-> evidence_id,
              status_code |-> r.status_code, detail |-> r.detail,
              body |-> r.body]

GetEvidenceDetails(evidence_id) ==
    /\ http' = get_evidence_details(evidence_files, evidence_id)
    /\ UNCHANGED <<credentials, analyze_threat, detector>>
    /\ UNCHANGED <<telegram_enabled, evidence_files, active_alerts, call>>

\* The API seen by a client: one /analyze/threat request going through
\* process_threat, and lookups at any moment.
NextApi ==
    \/ ProcessThreat(1)
    \/ \E id \in LookupIds : GetAlertDetails(id)
    \/ \E id \in LookupIds : GetEvidenceDetails(id)

SpecApi == Init /\ [][NextApi]_vars

\* ------------------------------------------------------------ claim helpers
Occurrences(seq, x) == Cardinality({i \in 1..Len(seq) : seq[i] = x})

IsConsoleResult(r) == "channel" \in DOMAIN r /\ r.channel = "console"

\* A result of send_telegram_alert: the "skipped" one carries no channel.
IsTelegramResult(r) == ~IsConsoleResult(r)

ConsoleResults(results) ==
    {i \in 1..Len(results) : IsConsoleResult(results[i])}
TelegramResults(results) ==
    {i \in 1..Len(results) : IsTelegramResult(results[i])}

\* Positions of process_threat after the console alert, and after the
\* whole dispatch step.
AfterConsole == {"telegram", "register", "return", "done"}
AfterDispatch == {"register", "return", "done"}
AfterCapture == {"console"} \cup AfterConsole

\* C1: every process_threat call that has reached the dispatch step has
\* invoked send_console_alert exactly once and holds exactly one console
\* result in its alert results, whatever the level (low included); a call
\* that has registered its alert has recorded that result in the registry
\* entry it wrote.
C1_ConsoleAlways ==
    \A c \in Calls :
        /\ call[c].pc \in AfterConsole =>
             /\ Occurrences(call[c].steps, "console") = 1
             /\ Cardinality(ConsoleResults(call[c].alert_results)) = 1
        /\ call[c].pc \in {"return", "done"} =>
             Cardinality(ConsoleResults(
                 active_alerts[call[c].evidence_data.evidence_id].alert_results)) = 1

C1_Witness ==
    \E c \in Calls :
        /\ call[c].pc = "done"
        /\ call[c].classification.level = "low"
        /\ IsConsoleResult(call[c].alert_results[1])
        /\ ConsoleResults(
               active_alerts[call[c].response.alert_id].alert_results) # {}

\* C2 as stated: after dispatch, a low level has no Telegram result or a
\* skipped one, and a medium, high or critical level has a Telegram result
\* whose status is sent or failed.
C2_Original ==
    \A c \in Calls :
        call[c].pc \in AfterDispatch =>
            LET results == call[c].alert_results
                tg == TelegramResults(results)
            IN  IF call[c].classification.level = "low"
                THEN \A i \in tg : results[i].status = "skipped"
                ELSE \E i \in tg : results[i].status \in {"sent", "failed"}

\* C2 amended: after dispatch, a low level has no Telegram result; a medium,
\* high or critical level has exactly one, whose status is sent or failed
\* when the Telegram credentials are configured and skipped when they are
\* absent.
C2_Amended ==
    \A c \in Calls :
        call[c].pc \in AfterDispatch =>
            LET results == call[c].alert_results
                tg == TelegramResults(results)
            IN  IF call[c].classification.level = "low"
                THEN tg = {}
                ELSE /\ Cardinality(tg) = 1
                     /\ \A i \in tg :
                          IF telegram_enabled
                          THEN results[i].status \in {"sent", "failed"}
                          ELSE results[i].status = "skipped"

C2_Witness ==
    /\ \E c \in Calls :
         /\ call[c].pc = "done"
         /\ call[c].classification.level = "medium"
         /\ \E i \in TelegramResults(call[c].alert_results) :
                call[c].alert_results[i].status = "sent"
    /\ \E c \in Calls :
         /\ call[c].pc = "done"
         /\ call[c].classification.level = "low"
         /\ TelegramResults(call[c].alert_results) = {}

\* C3: a failed Telegram send becomes a result with status failed and does
\* not stop process_threat: the call is not failed, its evidence is in the
\* vault, and once it has registered and returned, its alert is in the
\* registry and its response is complete with telegram_sent = FALSE.
C3_TelegramFailureIsolated ==
    \A c \in Calls :
        Occurrences(call[c].steps, "telegram_post_failed") > 0 =>
            /\ call[c].pc \in AfterDispatch
            /\ \E i \in 1..Len(call[c].alert_results) :
                   call[c].alert_results[i] =
                       [status |-> "failed", channel |-> "telegram"]
            /\ call[c].evidence_data.evidence_id \in DOMAIN evidence_files
            /\ call[c].pc \in {"return", "done"} =>
                   call[c].evidence_data.evidence_id \in DOMAIN active_alerts
            /\ call[c].pc = "done" =>
                   /\ call[c].response.telegram_sent = FALSE
                   /\ call[c].response.evidence_captured
                   /\ call[c].response.alert_id = call[c].evidence_data.evidence_id
                   /\ call[c].response.threat_level = call[c].classification.level

C3_Witness ==
    \E c \in Calls :
        /\ call[c].pc = "done"
        /\ Occurrences(call[c].steps, "telegram_post_failed") = 1
        /\ call[c].response.telegram_sent = FALSE
        /\ call[c].response.alert_id \in DOMAIN active_alerts

\* C4: when a URL is given and the archival request fails, process_threat
\* goes on: archived_url is None in the metadata of the evidence it writes,
\* and a call that failed did so in capture_evidence, not in the archival.
C4_ArchiveFailureIsolated ==
    \A c \in Calls :
        Occurrences(call[c].steps, "archive_failed") > 0 =>
            /\ call[c].request.url # None
            /\ call[c].archived_url = None
            /\ call[c].pc \in AfterCapture =>
                   /\ call[c].evidence.metadata.archived_url = None
                   /\ call[c].evidence.metadata.original_url = call[c].request.url
            /\ call[c].pc = "failed" =>
                   call[c].steps[Len(call[c].steps)]
                       \in {"capture_failed", "capture_partial"}
            /\ call[c].pc = "done" =>
                   /\ call[c].response.alert_id \in DOMAIN active_alerts
                   /\ call[c].response.evidence_id \in DOMAIN evidence_files

C4_Witness ==
    \E c \in Calls :
        /\ call[c].pc = "done"
        /\ Occurrences(call[c].steps, "archive_failed") = 1
        /\ call[c].evidence.metadata.archived_url = None
        /\ evidence_files[call[c].response.evidence_id] = call[c].evidence

\* C5: a process_threat call that has returned its response has written
\* exactly one evidence record and exactly one registry entry, both under
\* the ID of the record it built, and that ID is the alert_id and the
\* evidence_id of its response.
C5_OneRecordOneAlertSameId ==
    \A c \in Calls :
        call[c].pc = "done" =>
            LET id == call[c].evidence.id
            IN  /\ call[c].response.alert_id = id
                /\ call[c].response.evidence_id = id
                /\ id \in DOMAIN evidence_files
                /\ id \in DOMAIN active_alerts
                /\ active_alerts[id].threat_data.evidence_id = id
                /\ Occurrences(call[c].steps, "capture") = 1
                /\ Occurrences(call[c].steps, "capture_partial") = 0
                /\ Occurrences(call[c].steps, "register") = 1

C5_Witness ==
    \E c \in Calls :
        /\ call[c].pc = "done"
        /\ call[c].response.alert_id = call[c].response.evidence_id
        /\ evidence_files[call[c].response.evidence_id] = call[c].evidence
        /\ active_alerts[call[c].response.alert_id].threat_data
               = call[c].threat_data

\* C6 as stated: an entry of the active-alert registry is never changed or
\* replaced by a later step.
C6_AlertNeverReplaced ==
    [][\A id \in DOMAIN active_alerts :
           /\ id \in DOMAIN active_alerts'
           /\ active_alerts'[id] = active_alerts[id]]_vars

\* C7 as stated: a record persisted in the evidence vault is never modified
\* or replaced by a later capture_evidence call.
C7_EvidenceNeverReplaced ==
    [][\A id \in DOMAIN evidence_files :
           /\ id \in DOMAIN evidence_files'
           /\ evidence_files'[id] = evidence_files[id]]_vars

\* C8: two captures of the same content at different timestamps have
\* distinct evidence IDs and distinct chain hashes but the same
\* integrity_hash; any two captures of the same content have the same
\* integrity_hash.
C8_IdByTimeIntegrityByContent ==
    \A c1, c2 \in Calls :
        (/\ call[c1].evidence # None
         /\ call[c2].evidence # None
         /\ call[c1].evidence.content = call[c2].evidence.content) =>
            /\ call[c1].evidence.integrity_hash = call[c2].evidence.integrity_hash
            /\ call[c1].evidence.timestamp # call[c2].evidence.timestamp =>
                 /\ call[c1].evidence.id # call[c2].evidence.id
                 /\ call[c1].evidence.blockchain_simulation
                        # call[c2].evidence.blockchain_simulation

C8_Witness ==
    \E c1, c2 \in Calls :
        /\ call[c1].evidence # None
        /\ call[c2].evidence # None
        /\ call[c1].evidence.content = call[c2].evidence.content
        /\ call[c1].evidence.timestamp # call[c2].evidence.timestamp
        /\ call[c1].evidence.id # call[c2].evidence.id
        /\ evidence_files[call[c1].evidence.id].integrity_hash
               = evidence_files[call[c2].evidence.id].integrity_hash

\* C9 as stated: a lookup of an alert ID that is not in the registry is
\* answered 404 (an ID absent now was absent when it was looked up).
C9_UnknownAlertIs404 ==
    (/\ http # None
     /\ http.endpoint = "alerts"
     /\ http.id \notin DOMAIN active_alerts) => http.status_code = 404

\* C10 as stated: a lookup of an evidence ID with no persisted record is
\* answered 404, and a successful lookup returns the persisted record.
C10_UnknownEvidenceIs404 ==
    (http # None /\ http.endpoint = "evidence") =>
        /\ http.id \notin DOMAIN evidence_files => http.status_code = 404
        /\ http.status_code = 200 =>
             /\ http.id \in DOMAIN evidence_files
             /\ http.body = evidence_files[http.id]

\* C11 as stated: the step in which a process_threat call fails leaves the
\* evidence vault and the active-alert registry as they were, the failed call
\* holds the wrapped error and no response, and a call that returns holds a
\* response and no error.
C11_FailureLeavesNoPartialState ==
    [][\A c \in Calls :
           /\ (call'[c].pc = "failed" /\ call[c].pc # "failed") =>
                 /\ evidence_files' = evidence_files
                 /\ active_alerts' = active_alerts
           /\ call'[c].pc = "failed" =>
                 /\ call'[c].response = None
                 /\ call'[c].error = "Threat processing failed"
           /\ call'[c].pc = "done" =>
                 /\ call'[c].response # None
                 /\ call'[c].error = None]_vars

\* ------------------------------------------- POST /analyze/threat (main.py)
\* What check_dissonance returns: an error signal (the subject's collection
\* is not found, or holds no relevant statement) or the verdict.
DissonanceResults ==
    { [error |-> "Cognitive Twin not found"],
      [score |-> 2000, justification |-> "verdict"] }

\* What check_stylometric_drift returns: an error signal or the drift.
DriftResults ==
    { [error |-> "Cognitive Twin not found"], [drift_score |-> 10000] }

\* result.get("error")
HasError(result) == "error" \in DOMAIN result

SubstituteJustification ==
    "Could not perform dissonance check; twin may not cover this topic."

\* Mutant: the error signal is handed on as it came.
dissonance_or_substitute_keeping_error(dissonance_result) == dissonance_result

\* Lines 117-118.
dissonance_or_substitute(dissonance_result) ==
    IF HasError(dissonance_result)
    THEN [score |-> 0, justification |-> SubstituteJustification]
    ELSE dissonance_result

\* Lines 119-120.
drift_or_substitute(drift_result) ==
    IF HasError(drift_result) THEN [drift_score |-> 0] ELSE drift_result

\* Lines 143-153, for a request without image_url and video_url.
combined_analysis_of(dissonance_result, drift_result) ==
    [dissonance_score |-> DictGet(dissonance_result, "score", 0),
     drift_score |-> DictGet(drift_result, "drift_score", 0),
     visual_threat_score |-> 0,
     justification |-> DictGet(dissonance_result, "justification",
                               "Analysis completed."),
     visual_details |-> EmptyDict]

\* ThreatAnalysisRequest bodies (text only; twitter_handle and platform are
\* passed through unread).
ThreatAnalysisRequests ==
    [text_to_check : Contents, source_url : Urls, enable_alerts : BOOLEAN,
     fake_account_analysis : FakeAccountAnalyses]

InternalError ==
    [status_code |-> 500, detail |-> "An unexpected error occurred"]

\* Mutant: process_threat called whatever enable_alerts says.
AnalyzeThreatAlwaysAlerting ==
    /\ analyze_threat = None
    /\ call[1].pc = "idle"
    /\ \E request \in ThreatAnalysisRequests,
          dissonance_returned \in DissonanceResults,
          drift_returned \in DriftResults, raised \in BOOLEAN :
         LET dissonance_result == dissonance_or_substitute(dissonance_returned)
             drift_result == drift_or_substitute(drift_returned)
             combined_analysis ==
                 combined_analysis_of(dissonance_result, drift_result)
             served == [pc |-> "process_threat", request |-> request,
                        dissonance_returned |-> dissonance_returned,
                        drift_returned |-> drift_returned,
                        analysis |-> combined_analysis, response |-> None]
         IN  IF raised
             THEN /\ analyze_threat' =
                         [served EXCEPT !.pc = "done", !.analysis = EmptyDict,
                                        !.response = InternalError]
                  /\ call' = call
             ELSE IF TRUE
             THEN /\ analyze_threat' = served
                  /\ call' = [call EXCEPT
                                ![1].pc = "classify",
                                ![1].request =
                                    [content |-> request.text_to_check,
                                     analysis_result |-> combined_analysis,
                                     url |-> request.source_url,
                                     fake_account_analysis |->
                                         request.fake_account_analysis]]
             ELSE /\ analyze_threat' =
                         [served EXCEPT
                            !.pc = "done",
                            !.response =
                                [status_code |-> 200,
                                 body |-> [analysis |-> combined_analysis,
                                           alert_system |-> "disabled"]]]
                  /\ call' = call
    /\ UNCHANGED <<credentials, detector>>
    /\ UNCHANGED <<telegram_enabled, evidence_files, active_alerts, http>>

\* Lines 109-167 up to the call of process_threat.  A scorer either returns
\* (a verdict or an error signal) or raises; `raised` is caught at line 169.
AnalyzeThreat ==
    /\ analyze_threat = None
    /\ call[1].pc = "idle"
    /\ \E request \in ThreatAnalysisRequests,
          dissonance_returned \in DissonanceResults,
          drift_returned \in DriftResults, raised \in BOOLEAN :
         LET dissonance_result == dissonance_or_substitute(dissonance_returned)
             drift_result == drift_or_substitute(drift_returned)
             combined_analysis ==
                 combined_analysis_of(dissonance_result, drift_result)
             served == [pc |-> "process_threat", request |-> request,
                        dissonance_returned |-> dissonance_returned,
                        drift_returned |-> drift_returned,
                        analysis |-> combined_analysis, response |-> None]
         IN  IF raised
             THEN /\ analyze_threat' =
                         [served EXCEPT !.pc = "done", !.analysis = EmptyDict,
                                        !.response = InternalError]
                  /\ call' = call
             ELSE IF request.enable_alerts
             THEN /\ analyze_threat' = served
                  /\ call' = [call EXCEPT
                                ![1].pc = "classify",
                                ![1].request =
                                    [content |-> request.text_to_check,
                                     analysis_result |-> combined_analysis,
                                     url |-> request.source_url,
                                     fake_account_analysis |->
                                         request.fake_account_analysis]]
             ELSE /\ analyze_threat' =
                         [served EXCEPT
                            !.pc = "done",
                            !.response =
                                [status_code |-> 200,
                                 body |-> [analysis |-> combined_analysis,
                                           alert_system |-> "disabled"]]]
                  /\ call' = call
    /\ UNCHANGED <<credentials, detector>>
    /\ UNCHANGED <<telegram_enabled, evidence_files, active_alerts, http>>

\* Lines 165 and 169-170: process_threat has returned or raised.
AnalyzeThreatReturn ==
    /\ analyze_threat # None
    /\ analyze_threat.pc = "process_threat"
    /\ call[1].pc \in {"done", "failed"}
    /\ analyze_threat' =
           [analyze_threat EXCEPT
              !.pc = "done",
              !.response =
                  IF call[1].pc = "done"
                  THEN [status_code |-> 200,
                        body |-> [analysis |-> analyze_threat.analysis,
                                  threat_response |-> call[1].response]]
                  ELSE InternalError]
    /\ UNCHANGED <<credentials, detector, call>>
    /\ UNCHANGED <<telegram_enabled, evidence_files, active_alerts, http>>

\* process_threat once the endpoint has called it.
ProcessThreatSteps(c) ==
    \/ Classify(c)
    \/ Archive(c)
    \/ CaptureOk(c)
    \/ CaptureFails(c)
    \/ ConsoleAlert(c)
    \/ TelegramAlert(c)
    \/ Register(c)
    \/ Return(c)

NextAnalyze ==
    \/ AnalyzeThreat
    \/ ProcessThreatSteps(1)
    \/ AnalyzeThreatReturn

SpecAnalyze == Init /\ [][NextAnalyze]_vars

\* One of the two text scorers answered the request with an error signal.
ScorerError ==
    /\ analyze_threat # None
    /\ \/ HasError(analyze_threat.dissonance_returned)
       \/ HasError(analyze_threat.drift_returned)

\* C12 as stated: when a scorer returns an error signal the request is
\* rejected (an answer that is neither the success nor the internal error)
\* and process_threat is never entered.
C12_Original ==
    ScorerError =>
        /\ analyze_threat.pc = "done"
        /\ analyze_threat.response.status_code \notin {200, 500}
        /\ call[1].pc = "idle"

\* C12 amended: a scorer's error signal does not reject the request.  Score 0
\* stands in for the failed scorer (with the fixed justification for the
\* contradiction scorer), process_threat classifies from the substituted
\* scores when alerts are enabled, and the request is answered 200 with the
\* substituted analysis unless a scorer raised or process_threat failed (500).
C12_Amended ==
    (ScorerError /\ analyze_threat.analysis # EmptyDict) =>
        LET a == analyze_threat.analysis
            r == analyze_threat.request
        IN  /\ HasError(analyze_threat.dissonance_returned) =>
                /\ a.dissonance_score = 0
                /\ a.justification = SubstituteJustification
            /\ HasError(analyze_threat.drift_returned) => a.drift_score = 0
            /\ r.enable_alerts =>
                /\ call[1].request.analysis_result = a
                /\ call[1].classification # None =>
                     call[1].classification =
                         classify_threat(a.dissonance_score, a.drift_score,
                                         r.text_to_check,
                                         fake_score_of(r.fake_account_analysis))
            /\ analyze_threat.pc = "done" =>
                /\ analyze_threat.response.status_code =
                       IF call[1].pc = "failed" THEN 500 ELSE 200
                /\ analyze_threat.response.status_code = 200 =>
                       analyze_threat.response.body.analysis = a
                /\ r.enable_alerts = (call[1].pc # "idle")

C12_Witness ==
    /\ analyze_threat # None
    /\ HasError(analyze_threat.dissonance_returned)
    /\ HasError(analyze_threat.drift_returned)
    /\ analyze_threat.pc = "done"
    /\ analyze_threat.response.status_code = 200
    /\ call[1].pc = "done"
    /\ call[1].classification.score = 3000
    /\ call[1].evidence.id \in DOMAIN evidence_files
    /\ call[1].evidence.id \in DOMAIN active_alerts

\* -------------------------------------- classify_threat over wider inputs
ContentEmpty == <<>>
ContentBoth == <<"F","a","k","e"," ","b","o","m","b">>
ContentBombThreat == <<"b","o","m","b"," ","t","h","r","e","a","t">>

ClassifyContents ==
    { ContentEmpty, ContentPlain, ContentScam, ContentBomb, ContentBoth,
      ContentBombThreat }

\* Contradiction scores 0.0 .. 9.5, with the edges of the level bands.
DissonanceScores == {0, 2000, 4999, 5000, 5500, 6999, 7000, 8999, 9000, 9500}

\* Drift scores in percent: 0.0, 10.0, 78.9 and 150.0.  check_stylometric_drift
\* returns (sent_len_drift + word_len_drift) * 50 of two relative differences,
\* which has no upper bound (analysis.py line 154).
DriftScores == {0, 10000, 78900, 150000}

\* Account contexts: none, a report, the risk 6.0 under the one name and
\* under the other, and a dict with neither field.
ClassifyAccountAnalyses ==
    FakeAccountAnalyses
        \cup { [fake_account_risk_score |-> 6000], [risk_score |-> 6000],
               [platform |-> "Reddit"] }

ClassifyRequests ==
    [content : ClassifyContents,
     analysis_result : [dissonance_score : DissonanceScores,
                        drift_score : DriftScores],
     url : {None}, fake_account_analysis : ClassifyAccountAnalyses]

\* process_threat called with one of the wider requests.
StartClassify ==
    /\ call[1].pc = "idle"
    /\ \E r \in ClassifyRequests :
         call' = [call EXCEPT ![1].pc = "classify", ![1].request = r]
    /\ UNCHANGED <<credentials, analyze_threat, detector>>
    /\ UNCHANGED <<telegram_enabled, evidence_files, active_alerts, http>>

NextClassify ==
    \/ StartClassify
    \/ Classify(1)

SpecClassify == Init /\ [][NextClassify]_vars

\* The classification of call 1 has been made.
Classified == call[1].classification # None

\* The three scores classify_threat was called with.
GivenDissonance == call[1].request.analysis_result.dissonance_score
GivenDrift == call[1].request.analysis_result.drift_score
GivenFake == fake_score_of(call[1].request.fake_account_analysis)

HasCriticalTerm(content) ==
    \E word \in critical_keywords : Contains(Lower(content), word)
HasHighTerm(content) ==
    \E word \in high_keywords : Contains(Lower(content), word)

\* C13 as stated: the score classify_threat returns lies in [0, 10].
C13_ScoreInRange ==
    Classified =>
        /\ call[1].classification.score >= 0
        /\ call[1].classification.score <= 10000

\* C14: the level is fixed by the returned score, lower edges included:
\* critical iff score >= 9.0, high iff 7.0 <= score < 9.0, medium iff
\* 5.0 <= score < 7.0, low iff score < 5.0; the level is one of the four.
C14_LevelByScore ==
    Classified =>
        LET level == call[1].classification.level
            score == call[1].classification.score
        IN  /\ level \in {"critical", "high", "medium", "low"}
            /\ (level = "critical") = (score >= 9000)
            /\ (level = "high") = (7000 <= score /\ score < 9000)
            /\ (level = "medium") = (5000 <= score /\ score < 7000)
            /\ (level = "low") = (score < 5000)

\* A score on the lower edge of the high band.
C14_Witness ==
    /\ Classified
    /\ call[1].classification = [level |-> "high", score |-> 7000]

\* The largest of three scores.
LargestOf(a, b, c) == CHOOSE m \in {a, b, c} : \A x \in {a, b, c} : m >= x

\* C15: the boosts exclude each other.  With a critical term in the content,
\* also next to a high term, 3.0 is added to the base score; with a high term
\* only, 1.5; with neither, nothing.  (The sum is capped at 10.0 when a boost
\* is added.)
C15_BoostsExclusive ==
    Classified =>
        LET content == call[1].request.content
            base == LargestOf(GivenDissonance, GivenDrift \div 10, GivenFake)
            score == call[1].classification.score
        IN  /\ HasCriticalTerm(content) => score = Min2(10000, base + 3000)
            /\ (HasHighTerm(content) /\ ~HasCriticalTerm(content)) =>
                   score = Min2(10000, base + 1500)
            /\ (~HasHighTerm(content) /\ ~HasCriticalTerm(content)) =>
                   score = base

\* Both kinds of term in the content, and exactly 3.0 above the base.
C15_Witness ==
    /\ Classified
    /\ HasCriticalTerm(call[1].request.content)
    /\ HasHighTerm(call[1].request.content)
    /\ GivenDissonance = 5500
    /\ GivenDrift = 10000
    /\ GivenFake = 0
    /\ call[1].classification.score = 8500

\* C16: without keyword hit the score is the maximum, not the sum, of the
\* contradiction score, a tenth of the drift score and the impersonation
\* score; all-zero inputs with empty content give {low, 0.0}, contradiction
\* 9.5 alone gives {critical, 9.5}.
C16_MaxOfChannels ==
    (/\ Classified
     /\ ~HasCriticalTerm(call[1].request.content)
     /\ ~HasHighTerm(call[1].request.content)) =>
        LET score == call[1].classification.score
        IN  /\ score \in {GivenDissonance, GivenDrift \div 10, GivenFake}
            /\ score >= GivenDissonance
            /\ score >= GivenDrift \div 10
            /\ score >= GivenFake
            /\ (/\ GivenDissonance = 0 /\ GivenDrift = 0 /\ GivenFake = 0
                /\ call[1].request.content = ContentEmpty) =>
                   call[1].classification = [level |-> "low", score |-> 0]
            /\ (GivenDissonance = 9500 /\ GivenDrift = 0 /\ GivenFake = 0) =>
                   call[1].classification =
                       [level |-> "critical", score |-> 9500]

\* Several non-zero channels, no keyword: the score is the largest of them.
C16_Witness ==
    /\ Classified
    /\ call[1].request.content = ContentPlain
    /\ GivenDissonance = 2000
    /\ GivenDrift = 78900
    /\ GivenFake = 8000
    /\ call[1].classification = [level |-> "high", score |-> 8000]

\* The case of C17: "bomb threat", contradiction 2, drift 10, no account
\* context.
BombThreatCase ==
    /\ Classified
    /\ call[1].request.content = ContentBombThreat
    /\ GivenDissonance = 2000
    /\ GivenDrift = 10000
    /\ call[1].request.fake_account_analysis = None

\* C17 as stated: the level is high or critical.
C17_Original ==
    BombThreatCase => call[1].classification.level \in {"high", "critical"}

\* C17 amended: the level is medium, the score 5.0 (base 2.0 plus the
\* critical boost 3.0).
C17_Amended ==
    BombThreatCase =>
        call[1].classification = [level |-> "medium", score |-> 5000]

C17_Witness ==
    /\ BombThreatCase
    /\ call[1].classification.level = "medium"
    /\ call[1].pc = "archive"

\* The bot token or the chat id is absent.
CredentialsAbsent == telegram_token = None \/ telegram_chat_id = None

\* C18: with the bot token or the chat id absent, every send_telegram_alert
\* call returns status skipped and issues no request: a call past the
\* Telegram step holds, at a gated level, the skipped result and no other
\* Telegram result, and its history holds no Telegram request.
C18_NoCredentialsSkipped ==
    CredentialsAbsent =>
        \A c \in Calls :
            /\ Occurrences(call[c].steps, "telegram_post_ok") = 0
            /\ Occurrences(call[c].steps, "telegram_post_failed") = 0
            /\ \A i \in 1..Len(call[c].alert_results) :
                   \/ IsConsoleResult(call[c].alert_results[i])
                   \/ call[c].alert_results[i] =
                          [status |-> "skipped", reason |-> "telegram_disabled"]
            /\ (/\ call[c].pc \in AfterDispatch
                /\ call[c].classification.level \in telegram_levels)
                   => Occurrences(call[c].steps, "telegram_skipped") = 1

\* The token is set, the chat id is not, and a critical alert was skipped.
C18_Witness ==
    /\ telegram_token # None
    /\ telegram_chat_id = None
    /\ call[1].pc = "done"
    /\ call[1].classification.level = "critical"
    /\ Occurrences(call[1].steps, "telegram_skipped") = 1
    /\ call[1].alert_results[2] =
           [status |-> "skipped", reason |-> "telegram_disabled"]

\* ------------------------------------------------------ FakeAccountDetector
\* difflib.SequenceMatcher(None, a, b) without junk: the matching blocks are
\* found by taking the longest common block (of the longest ones the one
\* starting earliest in a, then earliest in b) and recursing to its left and
\* to its right.  CommonBlocks is the set of common blocks <<i, j, k>>.
CommonBlocks(a, b) ==
    { blk \in (1..Len(a)) \X (1..Len(b)) \X (1..Min2(Len(a), Len(b))) :
        /\ blk[1] + blk[3] - 1 <= Len(a)
        /\ blk[2] + blk[3] - 1 <= Len(b)
        /\ SubSeq(a, blk[1], blk[1] + blk[3] - 1)
               = SubSeq(b, blk[2], blk[2] + blk[3] - 1) }

\* find_longest_match
find_longest_match(a, b) ==
    CHOOSE blk \in CommonBlocks(a, b) :
        \A other \in CommonBlocks(a, b) :
            \/ blk[3] > other[3]
            \/ blk[3] = other[3] /\ blk[1] < other[1]
            \/ blk[3] = other[3] /\ blk[1] = other[1] /\ blk[2] <= other[2]

\* The total size of get_matching_blocks().
RECURSIVE MatchingSize(_, _)
MatchingSize(a, b) ==
    IF CommonBlocks(a, b) = {}
    THEN 0
    ELSE LET blk == find_longest_match(a, b)
             i == blk[1]
             j == blk[2]
             k == blk[3]
         IN  k + MatchingSize(SubSeq(a, 1, i - 1), SubSeq(b, 1, j - 1))
               + MatchingSize(SubSeq(a, i + k, Len(a)), SubSeq(b, j + k, Len(b)))

\* A similarity is the fraction num / den of two naturals, den > 0; the
\* float comparisons of the code are comparisons of fractions.
Fraction(num, den) == [num |-> num, den |-> den]
Less(x, y) == x.num * y.den < y.num * x.den
LessEq(x, y) == x.num * y.den <= y.num * x.den
Same(x, y) == x.num * y.den = y.num * x.den

\* SequenceMatcher.ratio(): 2.0 * matches / length, 1.0 when both are empty.
ratio(a, b) ==
    IF Len(a) + Len(b) = 0
    THEN Fraction(1, 1)
    ELSE Fraction(2 * MatchingSize(a, b), Len(a) + Len(b))

\* Mutant: exact matches flagged as well.
is_suspicious_of_including_exact(max_similarity) ==
    /\ LessEq(Fraction(7, 10), max_similarity)
    /\ LessEq(max_similarity, Fraction(1, 1))

\* Line 136: 0.7 <= max_similarity < 1.0
is_suspicious_of(max_similarity) ==
    /\ LessEq(Fraction(7, 10), max_similarity)
    /\ Less(max_similarity, Fraction(1, 1))

\* Lines 127-133: the loop over vip_handles, from handle number n on, with
\* the loop's three variables in `acc`.
RECURSIVE similarity_loop(_, _, _, _)
similarity_loop(suspect_username, vip_handles, n, acc) ==
    IF n > Len(vip_handles)
    THEN acc
    ELSE LET vip_handle == vip_handles[n]
             similarity == ratio(Lower(suspect_username), Lower(vip_handle))
             closer == Less(acc.max_similarity, similarity)
         IN  similarity_loop(suspect_username, vip_handles, n + 1,
                 [similarities |->
                      DictPut(acc.similarities, vip_handle, similarity),
                  max_similarity |->
                      IF closer THEN similarity ELSE acc.max_similarity,
                  closest_match |->
                      IF closer THEN vip_handle ELSE acc.closest_match])

check_username_similarity(suspect_username, vip_handles) ==
    LET done == similarity_loop(suspect_username, vip_handles, 1,
                                [similarities |-> EmptyDict,
                                 max_similarity |-> Fraction(0, 1),
                                 closest_match |-> None])
    IN  [is_suspicious_similarity |-> is_suspicious_of(done.max_similarity),
         max_similarity |-> done.max_similarity,
         closest_vip_match |-> done.closest_match,
         all_similarities |-> done.similarities]

\* Known handles, and the lists of them a check is made with.
VipHandles == { <<"e","l","o","n","m","u","s","k">>, <<"N","A","S","A">>, <<"e","l","o","n","_","m","u","s","k">> }
\* Number of known handles a similarity check is made against, at most.
MaxHandles == 2
VipHandleLists ==
    UNION { [1..n -> VipHandles] : n \in 0..MaxHandles }

\* Candidate usernames: exact and case-variant matches, look-alikes, a
\* prefix, an unrelated name, the empty name, and a name at similarity 0.7
\* exactly to "elon_musk" (7 of 11 + 9 characters).
SuspectUsernames ==
    { <<"e","l","o","n","m","u","s","k">>, <<"E","l","o","n","M","u","s","k">>, <<"e","l","o","n","m","u","5","k">>,
      <<"e","l","o","n">>, <<"n","a","s","a">>, <<"n","4","s","a">>, <<"x","y","z">>, <<>>,
      <<"e","l","o","n","m","u","s","x","x","x","x">> }

CheckUsernameSimilarity ==
    /\ detector = None
    /\ \E suspect_username \in SuspectUsernames, vip_handles \in VipHandleLists :
         detector' =
             [name |-> "check_username_similarity",
              args |-> [suspect_username |-> suspect_username,
                        vip_handles |-> vip_handles],
              result |-> check_username_similarity(suspect_username,
                                                   vip_handles)]
    /\ UNCHANGED <<credentials, analyze_threat, call>>
    /\ UNCHANGED <<telegram_enabled, evidence_files, active_alerts, http>>

\* self.suspicious_patterns, each `head[_-]?tail`, in the order of the list.
suspicious_patterns ==
    << [text |-> "verified[_-]?account",
        head |-> <<"v","e","r","i","f","i","e","d">>,
        tail |-> <<"a","c","c","o","u","n","t">>],
       [text |-> "real[_-]?account",
        head |-> <<"r","e","a","l">>,
        tail |-> <<"a","c","c","o","u","n","t">>],
       [text |-> "official[_-]?page",
        head |-> <<"o","f","f","i","c","i","a","l">>,
        tail |-> <<"p","a","g","e">>],
       [text |-> "authentic[_-]?profile",
        head |-> <<"a","u","t","h","e","n","t","i","c">>,
        tail |-> <<"p","r","o","f","i","l","e">>] >>

\* re.search(pattern, text): head, at most one of "_" and "-", tail.
re_search(pattern, text) ==
    \E sep \in { <<>>, <<"_">>, <<"-">> } :
        Contains(text, pattern.head \o sep \o pattern.tail)

\* The substitutes of self.character_substitutions; a character outside
\* ASCII is written as its code point.
character_substitutes ==
    { "@", "U+03B1", "U+0430", "3", "U+0435", "1", "l", "!", "U+0456",
      "0", "U+043E", "U+03C5", "U+0438" }

impersonation_keywords ==
    { <<"i"," ","a","m">>,
      <<"t","h","i","s"," ","i","s">>,
      <<"o","f","f","i","c","i","a","l"," ","a","c","c","o","u","n","t">>,
      <<"v","e","r","i","f","i","e","d"," ","p","r","o","f","i","l","e">>,
      <<"r","e","a","l"," ","a","c","c","o","u","n","t">>,
      <<"a","u","t","h","e","n","t","i","c">>,
      <<"g","e","n","u","i","n","e">>,
      <<"l","e","g","i","t","i","m","a","t","e">>,
      <<"f","o","l","l","o","w"," ","m","y"," ","o","f","f","i","c","i","a","l">>,
      <<"m","y"," ","n","e","w"," ","a","c","c","o","u","n","t">>,
      <<"b","a","c","k","u","p"," ","a","c","c","o","u","n","t">> }

_contains_impersonation_claims(text) ==
    \E keyword \in impersonation_keywords : Contains(Lower(text), keyword)

_has_character_substitution(username) ==
    \E n \in 1..Len(username) : Lower(username)[n] \in character_substitutes

\* Mutant: the loop over the patterns left at the first pattern found.
pattern_flags_first_match_only(name, prefix) ==
    LET found == SelectSeq(suspicious_patterns,
                           LAMBDA pattern : re_search(pattern, name))
    IN  IF found = <<>> THEN <<>>
        ELSE << [flag |-> prefix, pattern |-> found[1].text] >>

\* The flags appended, in list order, for the patterns found in `name`.
pattern_flags(name, prefix) ==
    LET found == SelectSeq(suspicious_patterns,
                           LAMBDA pattern : re_search(pattern, name))
    IN  [n \in 1..Len(found) |-> [flag |-> prefix, pattern |-> found[n].text]]

\* f"{a} {b}"
Joined(a, b) == a \o <<" ">> \o b

\* A JSON number or null in the answer of Reddit.
JsonNumber(n) == [number |-> n]
JsonNull == [null |-> TRUE]

\* Lines 33-69, the try block: the flags and the risk it leaves.  `fetch` is
\* what session.get does: it raises, or answers with a status code and, for
\* 200, the account's data (created_utc given as the account's age in days).
\* A missing created_utc raises KeyError before any flag, a null total_karma
\* raises TypeError after the age flag.
error_flag == [flag |-> "Error checking account"]

reddit_try(username, fetch) ==
    IF fetch.outcome = "raises"
    THEN [flags |-> <<error_flag>>, risk |-> 500]
    ELSE IF fetch.status_code # 200
    THEN [flags |-> << [flag |-> "Could not retrieve account information"] >>,
          risk |-> 1000]
    ELSE IF "age_days" \notin DOMAIN fetch.user_data
    THEN [flags |-> <<error_flag>>, risk |-> 500]
    ELSE LET user_data == fetch.user_data
             new == user_data.age_days < 30
             flags1 == IF new THEN << [flag |-> "Very new account"] >> ELSE <<>>
             risk1 == IF new THEN 2000 ELSE 0
         IN  IF /\ "total_karma" \in DOMAIN user_data
                /\ user_data.total_karma = JsonNull
             THEN [flags |-> Append(flags1, error_flag), risk |-> risk1 + 500]
             ELSE LET total_karma ==
                          IF "total_karma" \in DOMAIN user_data
                          THEN user_data.total_karma.number ELSE 0
                      low == total_karma < 100
                      flags2 == IF low
                                THEN Append(flags1, [flag |-> "Low karma account"])
                                ELSE flags1
                      risk2 == IF low THEN risk1 + 1500 ELSE risk1
                      flags3 == pattern_flags(Lower(username),
                                              "Suspicious username pattern")
                  IN  [flags |-> flags2 \o flags3,
                       risk |-> risk2 + 3000 * Len(flags3)]

\* Mutant: the risk score returned without the cap.
analyze_reddit_account_uncapped(username, post_data, fetch) ==
    LET tried == reddit_try(username, fetch)
        post_text == Joined(DictGet(post_data, "title", <<>>),
                            DictGet(post_data, "selftext", <<>>))
        claims == _contains_impersonation_claims(post_text)
    IN  [username |-> username,
         risk_score |-> IF claims THEN tried.risk + 4000 ELSE tried.risk,
         suspicious_flags |->
             IF claims
             THEN Append(tried.flags,
                         [flag |-> "Post contains impersonation claims"])
             ELSE tried.flags,
         platform |-> "Reddit"]

\* Lines 28-83 (analysis_timestamp left out).
analyze_reddit_account(username, post_data, fetch) ==
    LET tried == reddit_try(username, fetch)
        post_text == Joined(DictGet(post_data, "title", <<>>),
                            DictGet(post_data, "selftext", <<>>))
        claims == _contains_impersonation_claims(post_text)
        risk_score == IF claims THEN tried.risk + 4000 ELSE tried.risk
    IN  [username |-> username,
         risk_score |-> Min2(risk_score, 10000),
         suspicious_flags |->
             IF claims
             THEN Append(tried.flags,
                         [flag |-> "Post contains impersonation claims"])
             ELSE tried.flags,
         platform |-> "Reddit"]

\* Lines 85-119 (analysis_timestamp left out).
analyze_telegram_account(channel_info) ==
    LET channel_name == DictGet(channel_info, "username", <<"U","n","k","n","o","w","n">>)
        title == DictGet(channel_info, "title", <<>>)
        description == DictGet(channel_info, "description", <<>>)
        member_count == DictGet(channel_info, "participants_count", 0)
        claims == /\ member_count < 1000
                  /\ _contains_impersonation_claims(Joined(title, description))
        flags1 == IF claims
                  THEN << [flag |-> "Low subscriber count with official claims"] >>
                  ELSE <<>>
        flags2 == pattern_flags(Lower(channel_name),
                                "Suspicious channel name pattern")
        substituted == _has_character_substitution(channel_name)
        flags3 == IF substituted
                  THEN << [flag |->
                      "Potential character substitution in channel name"] >>
                  ELSE <<>>
        risk_score == (IF claims THEN 3000 ELSE 0) + 2500 * Len(flags2)
                          + (IF substituted THEN 3500 ELSE 0)
    IN  [channel_username |-> channel_name,
         channel_title |-> title,
         risk_score |-> Min2(risk_score, 10000),
         suspicious_flags |-> flags1 \o flags2 \o flags3,
         platform |-> "Telegram"]

\* Account names: no pattern, one pattern, two patterns, four patterns.
AccountNames ==
    { <<"s","p","a","c","e","f","a","n">>, <<"R","e","a","l","_","A","c","c","o","u","n","t">>,
      <<"r","e","a","l","_","a","c","c","o","u","n","t","_","o","f","f","i","c","i","a","l","-","p","a","g","e">>,
      <<"v","e","r","i","f","i","e","d","a","c","c","o","u","n","t","_","r","e","a","l","-","a","c","c","o","u","n","t","_","o","f","f","i","c","i","a","l","p","a","g","e","_","a","u","t","h","e","n","t","i","c","_","p","r","o","f","i","l","e">> }

\* Post data: no field, a claim in the title, a claim that the join of title
\* and selftext makes ("This" + " " + "is me"), no claim.
PostDatas ==
    { EmptyDict,
      [title |-> <<"I"," ","a","m"," ","E","l","o","n">>],
      [title |-> <<"T","h","i","s">>, selftext |-> <<"i","s"," ","m","e">>],
      [title |-> <<"h","e","l","l","o">>, selftext |-> <<"h","e","l","l","o">>] }

UserDatas ==
    { [age_days |-> 5, total_karma |-> JsonNumber(10)],
      [age_days |-> 5, total_karma |-> JsonNumber(5000)],
      [age_days |-> 400, total_karma |-> JsonNumber(10)],
      [age_days |-> 400, total_karma |-> JsonNumber(5000)],
      [age_days |-> 400],
      [age_days |-> 5, total_karma |-> JsonNull],
      [total_karma |-> JsonNumber(10)] }

Fetches ==
    { [outcome |-> "raises"], [outcome |-> "status", status_code |-> 404] }
    \cup { [outcome |-> "status", status_code |-> 200, user_data |-> user_data] :
               user_data \in UserDatas }

AnalyzeRedditAccount ==
    /\ detector = None
    /\ \E username \in AccountNames, post_data \in PostDatas, fetch \in Fetches :
         detector' =
             [name |-> "analyze_reddit_account",
              args |-> [username |-> username, post_data |-> post_data,
                        fetch |-> fetch],
              result |-> analyze_reddit_account(username, post_data, fetch)]
    /\ UNCHANGED <<credentials, analyze_threat, call>>
    /\ UNCHANGED <<telegram_enabled, evidence_files, active_alerts, http>>

\* Channel descriptions: with and without name, claim and member count.
ChannelInfos ==
    { EmptyDict }
    \cup [username : AccountNames \cup { <<"e","1","o","n">> },
          title : { <<"I"," ","a","m"," ","E","l","o","n">>, <<"h","e","l","l","o">> },
          participants_count : {500, 5000}]
    \cup [username : AccountNames, description : { <<"O","f","f","i","c","i","a","l"," ","a","c","c","o","u","n","t">> }]

AnalyzeTelegramAccount ==
    /\ detector = None
    /\ \E channel_info \in ChannelInfos :
         detector' =
             [name |-> "analyze_telegram_account",
              args |-> [channel_info |-> channel_info],
              result |-> analyze_telegram_account(channel_info)]
    /\ UNCHANGED <<credentials, analyze_threat, call>>
    /\ UNCHANGED <<telegram_enabled, evidence_files, active_alerts, http>>

\* One call of the detector, which keeps no state between calls.
NextDetector ==
    \/ CheckUsernameSimilarity
    \/ AnalyzeRedditAccount
    \/ AnalyzeTelegramAccount

SpecDetector == Init /\ [][NextDetector]_vars

\* The last detector call was check_username_similarity.
SimilarityChecked ==
    /\ detector # None
    /\ detector.name = "check_username_similarity"

\* The candidate equals one of the known handles, letter case aside.
ExactMatch ==
    \E n \in 1..Len(detector.args.vip_handles) :
        Lower(detector.args.vip_handles[n]) = Lower(detector.args.suspect_username)

\* C19: max_similarity is the largest similarity over the known handles (0.0
\* without handles), is_suspicious_similarity holds exactly when
\* 0.7 <= max_similarity < 1.0, and a candidate matching a known handle
\* exactly, letter case aside, has max_similarity 1.0 and is not flagged.
C19_FlaggedIffSimilarNotExact ==
    SimilarityChecked =>
        LET res == detector.result
            sims == res.all_similarities
        IN  /\ \A h \in DOMAIN sims : LessEq(sims[h], res.max_similarity)
            /\ \/ \E h \in DOMAIN sims : Same(sims[h], res.max_similarity)
               \/ res.max_similarity.num = 0
            /\ DOMAIN sims =
                   {detector.args.vip_handles[n] :
                        n \in 1..Len(detector.args.vip_handles)}
            /\ res.is_suspicious_similarity =
                   (/\ 7 * res.max_similarity.den <= 10 * res.max_similarity.num
                    /\ res.max_similarity.num < res.max_similarity.den)
            /\ ExactMatch =>
                   /\ res.max_similarity.num = res.max_similarity.den
                   /\ ~res.is_suspicious_similarity

\* "elonmu5k" against "elonmusk": 7 of 8 characters match, 0.875, flagged.
C19_Witness ==
    /\ SimilarityChecked
    /\ detector.args.suspect_username = <<"e","l","o","n","m","u","5","k">>
    /\ detector.args.vip_handles = << <<"e","l","o","n","m","u","s","k">> >>
    /\ detector.result.max_similarity = Fraction(14, 16)
    /\ detector.result.is_suspicious_similarity

\* "ElonMusk" against "elon_musk" (0.94) and "elonmusk" (exact): not flagged.
C19_WitnessExact ==
    /\ SimilarityChecked
    /\ detector.args.suspect_username = <<"E","l","o","n","M","u","s","k">>
    /\ detector.args.vip_handles =
           << <<"e","l","o","n","_","m","u","s","k">>,
              <<"e","l","o","n","m","u","s","k">> >>
    /\ detector.result.all_similarities[<<"e","l","o","n","_","m","u","s","k">>]
           = Fraction(16, 17)
    /\ detector.result.max_similarity = Fraction(16, 16)
    /\ ~detector.result.is_suspicious_similarity

\* The last detector call was one of the two account analyses.
AccountAnalysed ==
    /\ detector # None
    /\ detector.name \in {"analyze_reddit_account", "analyze_telegram_account"}

\* C20: the risk_score of analyze_reddit_account and of
\* analyze_telegram_account lies in [0, 10], whatever heuristics fire and
\* whether the account was fetched, the fetch refused or an exception raised.
C20_RiskScoreInRange ==
    AccountAnalysed =>
        /\ detector.result.risk_score >= 0
        /\ detector.result.risk_score <= 10000

\* A fetched Reddit account on which seven heuristics fire (2.0 + 1.5 +
\* 4 * 3.0 + 4.0): the score is 10.0.
C20_Witness ==
    /\ AccountAnalysed
    /\ detector.name = "analyze_reddit_account"
    /\ detector.args.fetch.outcome = "status"
    /\ detector.args.fetch.status_code = 200
    /\ Len(detector.result.suspicious_flags) = 7
    /\ detector.result.risk_score = 10000


\* The rank of a recorded step in the order of process_threat.
StepRank(name) ==
    IF name = "classify" THEN 1
    ELSE IF name \in {"archive_ok", "archive_failed"} THEN 2
    ELSE IF name \in {"capture", "capture_partial", "capture_failed"} THEN 3
    ELSE IF name = "console" THEN 4
    ELSE IF name \in {"telegram_skipped", "telegram_post_ok",
                      "telegram_post_failed"} THEN 5
    ELSE IF name = "register" THEN 6
    ELSE 7

Ranks(c) == {StepRank(call[c].steps[n]) : n \in 1..Len(call[c].steps)}

\* C22: the steps of a process_threat call run in the order classify,
\* archive (exactly when a URL is given), capture, console, Telegram (exactly
\* when the level is gated in), register, return, none of them skipped; the
\* evidence record is persisted before a channel is invoked, and the
\* registry entry is inserted after all channel results are known.
C22_StepOrder ==
    \A c \in Calls :
        LET steps == call[c].steps
            pc == call[c].pc
        IN  /\ \A m, n \in 1..Len(steps) :
                   m < n => StepRank(steps[m]) < StepRank(steps[n])
            /\ pc \in {"capture"} \cup AfterCapture =>
                   /\ 1 \in Ranks(c)
                   /\ (2 \in Ranks(c)) = (call[c].request.url # None)
            /\ pc \in AfterCapture =>
                   /\ 3 \in Ranks(c)
                   /\ call[c].evidence.id \in DOMAIN evidence_files
            /\ pc \in AfterConsole => 4 \in Ranks(c)
            /\ pc \in AfterDispatch =>
                   (5 \in Ranks(c))
                       = (call[c].classification.level \in telegram_levels)
            /\ pc \in {"return", "done"} =>
                   /\ 6 \in Ranks(c)
                   /\ active_alerts[call[c].evidence.id].alert_results
                          = call[c].alert_results
            /\ pc \in {"console", "telegram", "register"} =>
                   call[c].evidence.id \notin DOMAIN active_alerts
            /\ pc = "done" => 7 \in Ranks(c)

\* A returned call that ran all seven steps.
C22_Witness ==
    /\ call[1].pc = "done"
    /\ call[1].steps =
           <<"classify", "archive_ok", "capture", "console",
             "telegram_post_ok", "register", "return">>

\* Requests issued by a call: archival, Telegram.
ArchiveRequests(c) ==
    Occurrences(call[c].steps, "archive_ok")
        + Occurrences(call[c].steps, "archive_failed")
TelegramRequests(c) ==
    Occurrences(call[c].steps, "telegram_post_ok")
        + Occurrences(call[c].steps, "telegram_post_failed")

\* C23: a process_threat call issues at most one archival request and at
\* most one Telegram send request; a failed attempt is not repeated.
C23_SingleAttempt ==
    \A c \in Calls :
        /\ ArchiveRequests(c) <= 1
        /\ TelegramRequests(c) <= 1

\* Both requests failed, once each, and the call returned.
C23_Witness ==
    /\ call[1].pc = "done"
    /\ Occurrences(call[1].steps, "archive_failed") = 1
    /\ Occurrences(call[1].steps, "telegram_post_failed") = 1
    /\ ArchiveRequests(1) = 1
    /\ TelegramRequests(1) = 1


\* Every call has returned, and the calls hold pairwise distinct evidence IDs.
AllDoneDistinctIds ==
    /\ \A c \in Calls : call[c].pc = "done"
    /\ \A c1, c2 \in Calls :
           c1 # c2 => call[c1].evidence.id # call[c2].evidence.id

\* C24: interleaved process_threat calls with distinct evidence IDs do not
\* contend.  When all have returned, the vault and the registry hold one
\* entry per call, and the entry under a call's ID carries that call's
\* content, classification and channel results.
C24_DistinctIdsNoContention ==
    AllDoneDistinctIds =>
        /\ Cardinality(DOMAIN evidence_files) = NumCalls
        /\ Cardinality(DOMAIN active_alerts) = NumCalls
        /\ \A c \in Calls :
               LET id == call[c].evidence.id
               IN  /\ evidence_files[id].content = call[c].request.content
                   /\ evidence_files[id].metadata.classification
                          = call[c].classification
                   /\ evidence_files[id] = call[c].evidence
                   /\ active_alerts[id].threat_data.content
                          = call[c].request.content
                   /\ active_alerts[id].threat_data.classification
                          = call[c].classification
                   /\ active_alerts[id].alert_results = call[c].alert_results
                   /\ call[c].response.alert_id = id

\* Two calls with different contents and levels, both returned.
C24_Witness ==
    /\ AllDoneDistinctIds
    /\ call[1].request.content # call[2].request.content
    /\ call[1].classification.level = "low"
    /\ call[2].classification.level = "critical"
    /\ active_alerts[call[1].evidence.id].alert_results #
           active_alerts[call[2].evidence.id].alert_results


\* C29: telegram_sent of a response is true exactly when the call's alert
\* results hold a Telegram result with status sent, that is when the one
\* Telegram request of the call went through; it is false when the level is
\* low, when a credential is absent and when the send failed.
C29_TelegramSentIffSent ==
    \A c \in Calls :
        call[c].response # None =>
            LET results == call[c].alert_results
                sent == call[c].response.telegram_sent
            IN  /\ sent = (\E i \in TelegramResults(results) :
                               results[i] = [status |-> "sent",
                                             channel |-> "telegram"])
                /\ sent = (Occurrences(call[c].steps, "telegram_post_ok") = 1)
                /\ call[c].classification.level = "low" => ~sent
                /\ CredentialsAbsent => ~sent
                /\ Occurrences(call[c].steps, "telegram_post_failed") = 1 => ~sent

\* A response with telegram_sent true.
C29_Witness ==
    /\ call[1].response # None
    /\ call[1].response.telegram_sent
    /\ call[1].alert_results[2] = [status |-> "sent", channel |-> "telegram"]
    /\ ~CredentialsAbsent
    /\ call[1].classification.level = "medium"

\* The request served had enable_alerts = false.
AlertsDisabled ==
    /\ analyze_threat # None
    /\ ~analyze_threat.request.enable_alerts

\* C30: a request with enable_alerts = false never enters process_threat:
\* the vault and the registry stay as they were, no channel is used, and the
\* answer is 200 with the combined analysis and alert_system "disabled"
\* (500 when a scorer raised).
C30_DisabledAlertsNoEffect ==
    AlertsDisabled =>
        /\ call[1] = IdleCall
        /\ evidence_files = EmptyDict
        /\ active_alerts = EmptyDict
        /\ analyze_threat.pc = "done"
        /\ IF analyze_threat.analysis = EmptyDict
           THEN analyze_threat.response = InternalError
           ELSE analyze_threat.response =
                    [status_code |-> 200,
                     body |-> [analysis |->
                                   combined_analysis_of(
                                       dissonance_or_substitute(
                                           analyze_threat.dissonance_returned),
                                       drift_or_substitute(
                                           analyze_threat.drift_returned)),
                               alert_system |-> "disabled"]]

\* A request with alerts disabled and a text that alerts enabled would have
\* classified critical, answered with the analysis.
C30_Witness ==
    /\ AlertsDisabled
    /\ analyze_threat.request.text_to_check = ContentBomb
    /\ analyze_threat.request.fake_account_analysis = FakeReport
    /\ analyze_threat.response.status_code = 200
    /\ analyze_threat.response.body.analysis.dissonance_score = 2000
    /\ analyze_threat.response.body.alert_system = "disabled"


\* The score field names of the account context of call 1.
ScoreNames ==
    IF call[1].request.fake_account_analysis = None
    THEN {}
    ELSE DOMAIN call[1].request.fake_account_analysis
             \cap {"fake_account_risk_score", "risk_score"}

\* C27: the account risk is accepted under either field name.  A context
\* with one of the two fields is classified with that field's value as the
\* impersonation score, whichever name it has; no context, or a context
\* with neither field, is classified with impersonation score 0.
C27_EitherFieldName ==
    Classified =>
        LET r == call[1].request
        IN  /\ ScoreNames = {} =>
                   call[1].classification =
                       classify_threat(GivenDissonance, GivenDrift, r.content, 0)
            /\ \A name \in ScoreNames :
                   ScoreNames = {name} =>
                       call[1].classification =
                           classify_threat(GivenDissonance, GivenDrift,
                                           r.content,
                                           r.fake_account_analysis[name])

\* The risk 6.0 under the older name: medium, as under the newer name.
C27_Witness ==
    /\ Classified
    /\ call[1].request.fake_account_analysis = [risk_score |-> 6000]
    /\ call[1].request.content = ContentPlain
    /\ GivenDissonance = 2000
    /\ GivenDrift = 0
    /\ call[1].classification = [level |-> "medium", score |-> 6000]
    /\ call[1].classification =
           classify_threat(2000, 0, ContentPlain,
                           fake_score_of([fake_account_risk_score |-> 6000]))


\* --------------------------------------------- generate_fake_account_report
\* Lines 193-201.
_get_recommendation(threat_level) ==
    IF threat_level = "critical"
    THEN "IMMEDIATE ACTION REQUIRED - Likely impersonation account, consider legal action"
    ELSE IF threat_level = "high"
    THEN "HIGH PRIORITY - Investigate further, consider platform reporting"
    ELSE IF threat_level = "medium"
    THEN "MONITOR CLOSELY - Suspicious patterns detected, continue surveillance"
    ELSE IF threat_level = "low"
    THEN "ROUTINE MONITORING - Low risk, continue standard monitoring"
    ELSE "Continue monitoring"

\* Line 169: risk_score + max_similarity * 5, in thousandths, as a fraction.
total_risk_of(account_analysis, similarity_check) ==
    LET risk_score == DictGet(account_analysis, "risk_score", 0)
        max_similarity == DictGet(similarity_check, "max_similarity",
                                  Fraction(0, 1))
    IN  Fraction(risk_score * max_similarity.den + 5000 * max_similarity.num,
                 max_similarity.den)

\* Mutant: the three thresholds taken as exclusive.
threat_level_of_exclusive_edges(total_risk) ==
    IF Less(Fraction(8000, 1), total_risk) THEN "critical"
    ELSE IF Less(Fraction(6000, 1), total_risk) THEN "high"
    ELSE IF Less(Fraction(4000, 1), total_risk) THEN "medium"
    ELSE "low"

\* Lines 176-182.
threat_level_of(total_risk) ==
    IF LessEq(Fraction(8000, 1), total_risk) THEN "critical"
    ELSE IF LessEq(Fraction(6000, 1), total_risk) THEN "high"
    ELSE IF LessEq(Fraction(4000, 1), total_risk) THEN "medium"
    ELSE "low"

\* Mutant: the similarity flag appended whether or not the check is
\* suspicious.
all_flags_of_always_flagging(account_analysis, similarity_check) ==
    Append(DictGet(account_analysis, "suspicious_flags", <<>>),
           [flag |-> "Username highly similar to VIP",
            vip |-> DictGet(similarity_check, "closest_vip_match", None)])

\* Lines 172-174: the list `all_flags` after the conditional append.
all_flags_of(account_analysis, similarity_check) ==
    LET all_flags == DictGet(account_analysis, "suspicious_flags", <<>>)
    IN  IF DictGet(similarity_check, "is_suspicious_similarity", FALSE)
        THEN Append(all_flags,
                    [flag |-> "Username highly similar to VIP",
                     vip |-> DictGet(similarity_check, "closest_vip_match",
                                     None)])
        ELSE all_flags

\* Lines 172-174: `all_flags` is the list object of account_analysis when the
\* key is there (a fresh list otherwise), so the append shows in the
\* caller's dict.  This is account_analysis after the call.
account_analysis_after(account_analysis, similarity_check) ==
    IF "suspicious_flags" \in DOMAIN account_analysis
    THEN [account_analysis EXCEPT
              !.suspicious_flags = all_flags_of(account_analysis,
                                                similarity_check)]
    ELSE account_analysis

\* Lines 167-191: the report returned.
generate_fake_account_report(account_analysis, similarity_check) ==
    LET total_risk == total_risk_of(account_analysis, similarity_check)
        threat_level == threat_level_of(total_risk)
    IN  [fake_account_risk_score |->
             IF LessEq(total_risk, Fraction(10000, 1))
             THEN total_risk ELSE Fraction(10000, 1),
         threat_level |-> threat_level,
         suspicious_flags |-> all_flags_of(account_analysis, similarity_check),
         similarity_analysis |-> similarity_check,
         account_details |->
             account_analysis_after(account_analysis, similarity_check),
         recommendation |-> _get_recommendation(threat_level)]

\* Account analyses a report is made from: of Telegram channels, of Reddit
\* accounts, and a dict without fields.
ReportAccountAnalyses ==
    { analyze_telegram_account(channel_info) : channel_info \in ChannelInfos }
    \cup { analyze_reddit_account(username, EmptyDict, fetch) :
               username \in AccountNames, fetch \in Fetches }
    \cup { EmptyDict }

\* Similarity checks a report is made from, and a dict without fields.
ReportSimilarityChecks ==
    { check_username_similarity(suspect_username, vip_handles) :
          suspect_username \in SuspectUsernames,
          vip_handles \in VipHandleLists }
    \cup { EmptyDict }

\* The first report from an account analysis (telegram_monitor.py 194).
GenerateReport ==
    /\ detector = None
    /\ \E account_analysis \in ReportAccountAnalyses,
          similarity_check \in ReportSimilarityChecks :
         detector' =
             [name |-> "generate_fake_account_report",
              calls |-> 1,
              args |-> [account_analysis |-> account_analysis,
                        similarity_check |-> similarity_check],
              result |-> generate_fake_account_report(account_analysis,
                                                      similarity_check),
              account_analysis |->
                  account_analysis_after(account_analysis, similarity_check),
              first |-> None]
    /\ UNCHANGED <<credentials, analyze_threat, call>>
    /\ UNCHANGED <<telegram_enabled, evidence_files, active_alerts, http>>

\* A second report from the same account_analysis dict and the same
\* similarity check; `first` keeps the first report as it was returned.
GenerateReportAgain ==
    /\ detector # None
    /\ detector.name = "generate_fake_account_report"
    /\ detector.calls = 1
    /\ detector' =
           [detector EXCEPT
              !.calls = 2,
              !.first = detector.result,
              !.result =
                  generate_fake_account_report(detector.account_analysis,
                                               detector.args.similarity_check),
              !.account_analysis =
                  account_analysis_after(detector.account_analysis,
                                         detector.args.similarity_check)]
    /\ UNCHANGED <<credentials, analyze_threat, call>>
    /\ UNCHANGED <<telegram_enabled, evidence_files, active_alerts, http>>

NextReport ==
    \/ GenerateReport
    \/ GenerateReportAgain

SpecReport == Init /\ [][NextReport]_vars

\* A report was generated from an account analysis for the first time.
FirstReport ==
    /\ detector # None
    /\ detector.name = "generate_fake_account_report"
    /\ detector.calls = 1


\* The total and the level the arguments of the report call for.
ReportTotal ==
    LET risk_score == DictGet(detector.args.account_analysis, "risk_score", 0)
        max_similarity == DictGet(detector.args.similarity_check,
                                  "max_similarity", Fraction(0, 1))
    IN  Fraction(risk_score * max_similarity.den + 5000 * max_similarity.num,
                 max_similarity.den)

ReportLevel ==
    CASE LessEq(Fraction(8000, 1), ReportTotal) -> "critical"
      [] /\ Less(ReportTotal, Fraction(8000, 1))
         /\ LessEq(Fraction(6000, 1), ReportTotal) -> "high"
      [] /\ Less(ReportTotal, Fraction(6000, 1))
         /\ LessEq(Fraction(4000, 1), ReportTotal) -> "medium"
      [] Less(ReportTotal, Fraction(4000, 1)) -> "low"

\* C21: a report's fake_account_risk_score is min(10, risk_score + 5 *
\* max_similarity) of its two arguments, its threat_level is critical when
\* that total is at least 8, high when at least 6, medium when at least 4 and
\* low otherwise, and its recommendation is the fixed string of that level.
C21_ReportScoreAndLevel ==
    (detector # None /\ detector.name = "generate_fake_account_report") =>
        /\ IF Less(Fraction(10000, 1), ReportTotal)
           THEN Same(detector.result.fake_account_risk_score,
                     Fraction(10000, 1))
           ELSE Same(detector.result.fake_account_risk_score, ReportTotal)
        /\ detector.result.threat_level = ReportLevel
        /\ detector.result.recommendation = _get_recommendation(ReportLevel)

\* A report whose total is 8.0 exactly (3.0 and an exact match), critical,
\* and one whose total of more than 10 is capped.
C21_Witness ==
    /\ FirstReport
    /\ Same(ReportTotal, Fraction(8000, 1))
    /\ detector.args.account_analysis.risk_score = 3000
    /\ detector.result.threat_level = "critical"

C21_WitnessCapped ==
    /\ FirstReport
    /\ Less(Fraction(10000, 1), ReportTotal)
    /\ Same(detector.result.fake_account_risk_score, Fraction(10000, 1))

\* C26: the suspicious_flags of a report are the flags the account analysis
\* had, in their order, followed by one flag naming closest_vip_match when
\* is_suspicious_similarity is true and by nothing when it is false.
C26_ReportFlags ==
    FirstReport =>
        LET flags == DictGet(detector.args.account_analysis,
                             "suspicious_flags", <<>>)
            similarity_check == detector.args.similarity_check
        IN  IF DictGet(similarity_check, "is_suspicious_similarity", FALSE)
            THEN detector.result.suspicious_flags =
                     flags \o << [flag |-> "Username highly similar to VIP",
                                  vip |-> similarity_check.closest_vip_match] >>
            ELSE detector.result.suspicious_flags = flags

C26_Witness ==
    /\ FirstReport
    /\ detector.args.similarity_check # EmptyDict
    /\ detector.args.similarity_check.is_suspicious_similarity
    /\ "suspicious_flags" \in DOMAIN detector.args.account_analysis
    /\ Len(detector.args.account_analysis.suspicious_flags) >= 2
    /\ Len(detector.result.suspicious_flags)
           = Len(detector.args.account_analysis.suspicious_flags) + 1

C26_WitnessNotSuspicious ==
    /\ FirstReport
    /\ detector.args.similarity_check # EmptyDict
    /\ ~detector.args.similarity_check.is_suspicious_similarity
    /\ "suspicious_flags" \in DOMAIN detector.args.account_analysis
    /\ Len(detector.result.suspicious_flags) >= 2

\* C28: generate_fake_account_report leaves its account_analysis argument
\* as it was, and a second report from the same arguments has the
\* suspicious_flags the first one was returned with.
C28_ArgumentUnchanged ==
    (detector # None /\ detector.name = "generate_fake_account_report") =>
        /\ detector.calls = 1 =>
               detector.account_analysis = detector.args.account_analysis
        /\ detector.calls = 2 =>
               detector.result.suspicious_flags
                   = detector.first.suspicious_flags

\* The second report carries the similarity flag twice.
C28_DuplicateFlag ==
    /\ detector # None
    /\ detector.name = "generate_fake_account_report"
    /\ detector.calls = 2
    /\ Len(detector.result.suspicious_flags)
           = Len(detector.first.suspicious_flags) + 1


\* The weight each flag of an account analysis comes with (lines 47, 53, 60,
\* 64, 68, 74 for a Reddit account, lines 98, 105, 110 for a Telegram
\* channel).
heuristic_weight(flag) ==
    CASE flag.flag = "Very new account" -> 2000
      [] flag.flag = "Low karma account" -> 1500
      [] flag.flag = "Suspicious username pattern" -> 3000
      [] flag.flag = "Could not retrieve account information" -> 1000
      [] flag.flag = "Error checking account" -> 500
      [] flag.flag = "Post contains impersonation claims" -> 4000
      [] flag.flag = "Low subscriber count with official claims" -> 3000
      [] flag.flag = "Suspicious channel name pattern" -> 2500
      [] flag.flag = "Potential character substitution in channel name" -> 3500

RECURSIVE SumOfWeights(_)
SumOfWeights(flags) ==
    IF flags = <<>> THEN 0
    ELSE heuristic_weight(Head(flags)) + SumOfWeights(Tail(flags))

\* The heuristics that fired: the flags of the analysis without their
\* pattern, each counted once.
HeuristicsFired(flags) == { flags[n].flag : n \in 1..Len(flags) }

RECURSIVE SumOfHeuristics(_)
SumOfHeuristics(fired) ==
    IF fired = {} THEN 0
    ELSE LET flag == CHOOSE flag \in fired : TRUE
         IN  heuristic_weight([flag |-> flag])
                 + SumOfHeuristics(fired \ {flag})

IsPatternFlag(flag) == "pattern" \in DOMAIN flag

\* The name the pattern heuristic of the analysis looked at.
AnalysedName ==
    IF detector.name = "analyze_reddit_account"
    THEN detector.args.username
    ELSE DictGet(detector.args.channel_info, "username",
                 <<"U","n","k","n","o","w","n">>)

PatternsMatched ==
    { n \in 1..Len(suspicious_patterns) :
          re_search(suspicious_patterns[n], Lower(AnalysedName)) }

\* C25 as stated: each heuristic, the username-pattern heuristic among
\* them, adds its weight at most once to the risk score of an analysis.
C25_WeightAtMostOnce ==
    AccountAnalysed =>
        detector.result.risk_score
            = Min2(SumOfHeuristics(HeuristicsFired(
                       detector.result.suspicious_flags)), 10000)

\* C25, amended: every heuristic but the username-pattern one adds its
\* weight at most once; the username-pattern heuristic adds its weight, and
\* a flag, once for each suspicious pattern the name matches.
C25_WeightOncePerPattern ==
    AccountAnalysed =>
        LET flags == detector.result.suspicious_flags
        IN  /\ detector.result.risk_score = Min2(SumOfWeights(flags), 10000)
            /\ \A m, n \in 1..Len(flags) : flags[m] = flags[n] => m = n
            /\ \A m, n \in 1..Len(flags) :
                   (flags[m].flag = flags[n].flag /\ m # n) =>
                       IsPatternFlag(flags[m])
            /\ Cardinality({ n \in 1..Len(flags) : IsPatternFlag(flags[n]) })
                   = IF \E n \in 1..Len(flags) :
                            flags[n].flag \in
                                { "Could not retrieve account information",
                                  "Error checking account" }
                     THEN 0 ELSE Cardinality(PatternsMatched)

\* A name matching two patterns: two pattern flags and twice the weight.
C25_Witness ==
    /\ AccountAnalysed
    /\ detector.name = "analyze_reddit_account"
    /\ Cardinality(PatternsMatched) = 2
    /\ Len(detector.result.suspicious_flags) = 2
    /\ detector.result.risk_score = 6000

=============================================================================
